---- MODULE Spec2Model ----
(***************************************************************************)
(* Model of the query client of gocbcolumnar: gocbcoreQueryClient.Query,   *)
(* translateQueryOptions and translateGocbcoreError.                       *)
(*                                                                         *)
(* Conventions.  A Go string is a sequence of tokens ("" is <<>>, "$foo"   *)
(* is <<"$", "foo">>), so that strings.HasPrefix and concatenation are     *)
(* computed.  A nilable Go value (pointer, map, slice, interface) is None  *)
(* or Some(x).  A value stored in a map[string]interface{} is a record     *)
(* [kind, v] with v a string.  An error chain is a number of wrapping      *)
(* errors around one leaf; errors.Is walks the chain down to the leaf.     *)
(***************************************************************************)
EXTENDS Integers, Sequences, FiniteSets, TLC

VARIABLES namespace, defaultQueryTimeout, pc, call, agentCalls, ret

vars == <<namespace, defaultQueryTimeout, pc, call, agentCalls, ret>>

(* ---------------------------------------------------------------- bounds *)

\* Longest list of server error descriptors carried by a transport error.
MaxDescs == 2

\* Most wrapping errors around the leaf of an error chain.
MaxWrap == 1

\* Most entries of the raw passthrough mapping of a call.
MaxRaw == 2

\* Most entries of the named-parameter mapping of a call.
MaxNamed == 2

(* ------------------------------------------------------------- nilables *)

None == [some |-> FALSE]

Some(x) == [some |-> TRUE, val |-> x]

Option(S) == {None} \cup {Some(x) : x \in S}

(* ---------------------------------------------------------------- errors *)

ErrTimeout == "gocbcore.ErrTimeout"

ErrAuthenticationFailure == "gocbcore.ErrAuthenticationFailure"

ContextCanceled == "context.Canceled"

ContextDeadlineExceeded == "context.DeadlineExceeded"

ErrInvalidCredential == "ErrInvalidCredential"

\* The client's own timeout error (the package's ErrTimeout, not gocbcore's).
ColumnarErrTimeout == "ErrTimeout"

OtherLeaf == "other error"

Leaves == {ErrTimeout, ErrAuthenticationFailure, ContextCanceled,
           ContextDeadlineExceeded, OtherLeaf}

\* A plain error chain: wraps wrapping errors around the leaf.
Chains == [wraps : 0..MaxWrap, leaf : Leaves]

\* errors.Is(e, target) for a nilable plain chain: a nil error matches nothing.
errorsIs(e, target) == e.some /\ e.val.leaf = target

\* e.Error() of a plain chain: each wrapping error prefixes the text of the
\* error it wraps.
RECURSIVE WrapText(_, _)
WrapText(n, text) == IF n = 0 THEN text ELSE <<"wrap:">> \o WrapText(n - 1, text)

ErrorText(e) == WrapText(e.wraps, <<e.leaf>>)

Code20000 == 20000

Code21002 == 21002

Codes == {Code20000, Code21002, 5000, 6000}

Messages == {"m1", "m2"}

StatusUnauthorized == 401

Statuses == {StatusUnauthorized, 500}

\* gocbcore.ColumnarErrorDesc
ColumnarErrorDescs == [Code : Codes, Message : Messages, Retry : BOOLEAN]

DescLists == UNION {[1..n -> ColumnarErrorDescs] : n \in 0..MaxDescs}

\* gocbcore.ColumnarError, as far as translateGocbcoreError reads it.
ColumnarErrors ==
    [InnerError : Option(Chains), HTTPResponseCode : Statuses, Errors : DescLists,
     WasNotDispatched : BOOLEAN, Statement : {<<"SELECT">>}, Endpoint : {<<"host">>}]

NoColumnarError == [absent |-> TRUE]

\* An error handed to translateGocbcoreError: wraps wrapping errors around
\* either a *gocbcore.ColumnarError (core) or a plain leaf.
TransportErrors == [wraps : 0..MaxWrap, leaf : {"ColumnarError"}, core : ColumnarErrors]

PlainErrors == [wraps : 0..MaxWrap, leaf : Leaves, core : {NoColumnarError}]

\* errors.As(err, &coreErr)
errorsAs(err) == err.leaf = "ColumnarError"

\* errors.Is(err, target) on the error handed in: the chain passes through the
\* ColumnarError (its Unwrap gives InnerError) down to the leaf.
errIs(err, target) ==
    IF errorsAs(err) THEN errorsIs(err.core.InnerError, target) ELSE err.leaf = target

\* err.Error() of the error handed in.
errError(err) ==
    WrapText(err.wraps,
             IF errorsAs(err)
             THEN <<"ColumnarError">> \o
                  (IF err.core.InnerError.some THEN ErrorText(err.core.InnerError.val) ELSE <<>>)
             ELSE <<err.leaf>>)

NoCause == [kind |-> "nil", text |-> <<>>]

Sentinel(name) == [kind |-> name, text |-> <<>>]

\* errors.New(text)
errorsNew(text) == [kind |-> "errors.New", text |-> text]

newColumnarError(statement, endpoint, statusCode) ==
    [type |-> "columnarError", cause |-> NoCause, errors |-> <<>>, statement |-> statement,
     endpoint |-> endpoint, message |-> <<>>, httpResponseCode |-> statusCode]

withMessage(e, message) == [e EXCEPT !.message = message]

withCause(e, cause) == [e EXCEPT !.cause = cause]

withErrors(e, descs) == [e EXCEPT !.errors = descs]

newQueryError(statement, endpoint, statusCode, code, message) ==
    [type |-> "queryError", cause |-> newColumnarError(statement, endpoint, statusCode),
     code |-> code, message |-> message]

queryErrorWithErrors(q, descs) == [q EXCEPT !.cause = withErrors(q.cause, descs)]

\* A nil pointer dereference: InnerError.Error() on a nil InnerError.
Panic == [type |-> "panic"]

Unchanged(err) == [type |-> "unchanged", err |-> err]

\* Line 200: the authentication test.
isAuthFailure(err) ==
    \/ err.core.HTTPResponseCode = StatusUnauthorized
    \/ errIs(err, ErrAuthenticationFailure)

\* Lines 209-214: the descriptors copied without their retry flag.
descsOf(errors) == [i \in 1..Len(errors) |-> [Code |-> errors[i].Code, Message |-> errors[i].Message]]

\* Lines 216-218: index of the first descriptor whose Retry is false, 0 if none.
firstNonRetriableErrNone(errors) == 0

firstNonRetriableErr(errors) ==
    IF \E i \in 1..Len(errors) : ~errors[i].Retry
    THEN CHOOSE i \in 1..Len(errors) :
            ~errors[i].Retry /\ \A j \in 1..(i - 1) : errors[j].Retry
    ELSE 0

\* Lines 225-231: the descriptor that gives the code and the message.
selectedDesc(errors) ==
    IF firstNonRetriableErr(errors) = 0 THEN errors[1]
    ELSE errors[firstNonRetriableErr(errors)]

\* Lines 248-255: the cause set on a query error from the inner error.
queryErrorCauseNone(inner, cause) == cause

queryErrorCause(inner, cause) ==
    IF errorsIs(inner, ErrTimeout) THEN Sentinel(ColumnarErrTimeout)
    ELSE IF errorsIs(inner, ContextCanceled) THEN Sentinel(ContextCanceled)
    ELSE IF errorsIs(inner, ContextDeadlineExceeded) THEN Sentinel(ContextDeadlineExceeded)
    ELSE cause

\* Lines 206-258: a transport error with descriptors.
translateWithErrors(coreErr) ==
    LET descs == descsOf(coreErr.Errors)
        code  == selectedDesc(coreErr.Errors).Code
        msg   == selectedDesc(coreErr.Errors).Message
        base  == newColumnarError(coreErr.Statement, coreErr.Endpoint, coreErr.HTTPResponseCode)
    IN  IF code = Code20000
        THEN withCause(withErrors(base, descs), Sentinel(ErrInvalidCredential))
        ELSE IF code = Code21002
        THEN withCause(withErrors(base, descs), Sentinel(ColumnarErrTimeout))
        ELSE LET qErr == queryErrorWithErrors(
                            newQueryError(coreErr.Statement, coreErr.Endpoint,
                                          coreErr.HTTPResponseCode, code, msg), descs)
             IN  [qErr EXCEPT !.cause.cause = queryErrorCause(coreErr.InnerError, @)]

NotSentTimeout == <<"operation not sent to server, as timeout would be exceeded">>

NotSentCanceled == <<"operation not sent to server, as context was cancelled">>

NotSentDeadline == <<"operation not sent to server, as context deadline would be exceeded">>

\* Lines 263-283: the switch on the inner error of a transport error without
\* descriptors; baseErr already carries the inner error's message.
classifyInner(err, baseErr) ==
    LET inner == err.core.InnerError
        wnd   == err.core.WasNotDispatched
    IN  IF errorsIs(inner, ErrTimeout)
        THEN [baseErr EXCEPT !.cause = Sentinel(ColumnarErrTimeout),
                             !.message = IF wnd THEN NotSentTimeout ELSE @]
        ELSE IF errorsIs(inner, ContextCanceled)
        THEN [baseErr EXCEPT !.cause = Sentinel(ContextCanceled),
                             !.message = IF wnd THEN NotSentCanceled ELSE @]
        ELSE IF errorsIs(inner, ContextDeadlineExceeded)
        THEN [baseErr EXCEPT !.cause = Sentinel(ContextDeadlineExceeded),
                             !.message = IF wnd THEN NotSentDeadline ELSE @]
        ELSE IF errorsIs(inner, ErrAuthenticationFailure)
        THEN withCause(baseErr, Sentinel(ErrInvalidCredential))
        ELSE withCause(baseErr, errorsNew(errError(err)))

translateGocbcoreError(err) ==
    IF ~errorsAs(err) THEN Unchanged(err)
    ELSE LET coreErr == err.core
             base    == newColumnarError(coreErr.Statement, coreErr.Endpoint,
                                         coreErr.HTTPResponseCode)
         IN  IF isAuthFailure(err)
             THEN IF ~coreErr.InnerError.some THEN Panic
                  ELSE withCause(withMessage(base, ErrorText(coreErr.InnerError.val)),
                                 Sentinel(ErrInvalidCredential))
             ELSE IF Len(coreErr.Errors) > 0 THEN translateWithErrors(coreErr)
             ELSE IF ~coreErr.InnerError.some THEN Panic
             ELSE classifyInner(err, withMessage(base, ErrorText(coreErr.InnerError.val)))

(* --------------------------------------------------------- query options *)

\* A value held in the payload, a map[string]interface{}.
StringValue(text) == [kind |-> "string", v |-> text]

BoolValue(b) == [kind |-> "bool", v |-> IF b THEN <<"true">> ELSE <<"false">>]

SliceValue(items) == [kind |-> "slice", v |-> items]

\* m[k] = v on a Go map.
Put(m, k, v) == [x \in (DOMAIN m) \cup {k} |-> IF x = k THEN v ELSE m[x]]

EmptyMap == [x \in {} |-> StringValue(<<>>)]

RECURSIVE Orders(_)
\* Every order in which range can visit the keys S of a Go map.
Orders(S) ==
    IF S = {} THEN {<<>>}
    ELSE UNION {{<<x>> \o o : o \in Orders(S \ {x})} : x \in S}

\* The scan consistency enumeration (declared outside the files modelled).
QueryScanConsistencyNotBounded == 1

QueryScanConsistencyRequestPlus == 2

ScanConsistencies == 0..3

\* The default query timeout, 10 * time.Minute, in whole seconds.
DefaultQueryTimeout == 600

\* time.Until(deadline) at the time of the call, in whole seconds.
Remaining == {-7, 3720}

DeadlineMargin == 5

\* Duration.String() of a whole number of seconds: "1h2m3s", "10m0s", "7s",
\* "-2s".
DurationString(d) ==
    LET u == IF d < 0 THEN -d ELSE d
        h == u \div 3600
        m == (u % 3600) \div 60
        s == u % 60
    IN  (IF d < 0 THEN <<"-">> ELSE <<>>)
        \o (IF h > 0 THEN <<ToString(h), "h", ToString(m), "m">>
            ELSE IF m > 0 THEN <<ToString(m), "m">> ELSE <<>>)
        \o <<ToString(s), "s">>

\* strings.HasPrefix(key, "$")
HasDollarPrefix(key) == Len(key) > 0 /\ key[1] = "$"

\* Lines 84-86: the payload key of a named parameter.
namedKey(key) == IF HasDollarPrefix(key) THEN key ELSE <<"$">> \o key

putNamedLastOnly(execOpts, named, order) ==
    IF order = <<>> THEN execOpts
    ELSE Put(execOpts, namedKey(order[Len(order)]), named[order[Len(order)]])

RECURSIVE putNamed(_, _, _)
\* Lines 83-89: the range over NamedParameters, visiting its keys in order.
putNamed(execOpts, named, order) ==
    IF order = <<>> THEN execOpts
    ELSE putNamed(Put(execOpts, namedKey(Head(order)), named[Head(order)]), named, Tail(order))

RECURSIVE putRaw(_, _, _)
\* Lines 93-95: the range over Raw.
putRaw(execOpts, raw, keys) ==
    IF keys = {} THEN execOpts
    ELSE LET k == CHOOSE x \in keys : TRUE
         IN  putRaw(Put(execOpts, k, raw[k]), raw, keys \ {k})

\* Lines 72-75.
priorityOf(opts) == IF opts.Priority.some /\ opts.Priority.val THEN Some(-1) ELSE None

\* Lines 99-104: the recognised scan consistencies.
scanConsistencyKnownAny(sc) == TRUE

scanConsistencyKnown(sc) ==
    sc = QueryScanConsistencyNotBounded \/ sc = QueryScanConsistencyRequestPlus

scanConsistencyText(sc) ==
    IF sc = QueryScanConsistencyNotBounded THEN <<"not_bounded">> ELSE <<"request_plus">>

invalidArgumentError(name, reason) ==
    [type |-> "invalidArgumentError", ArgumentName |-> name, Reason |-> reason]

\* Lines 116-121: the timeout string.
timeoutTextDeadlineOnly(ctx, default) ==
    IF ctx.some THEN DurationString(ctx.val + DeadlineMargin) ELSE <<>>

timeoutText(ctx, default) ==
    IF ctx.some THEN DurationString(ctx.val + DeadlineMargin) ELSE DurationString(default)

\* Lines 77-96: args, named parameters, raw entries.
paramOpts(opts, order) ==
    LET a == IF opts.PositionalParameters.some
             THEN Put(EmptyMap, <<"args">>, SliceValue(opts.PositionalParameters.val))
             ELSE EmptyMap
        n == IF opts.NamedParameters.some
             THEN putNamed(a, opts.NamedParameters.val, order) ELSE a
    IN  IF opts.Raw.some THEN putRaw(n, opts.Raw.val, DOMAIN opts.Raw.val) ELSE n

\* Lines 98-123 on the success path: scan consistency, readonly, timeout, statement.
builtinOpts(execOpts, ctx, statement, opts, default) ==
    LET sc == IF opts.ScanConsistency.some
              THEN Put(execOpts, <<"scan_consistency">>,
                       StringValue(scanConsistencyText(opts.ScanConsistency.val)))
              ELSE execOpts
        ro == IF opts.ReadOnly.some
              THEN Put(sc, <<"readonly">>, BoolValue(opts.ReadOnly.val)) ELSE sc
        to == Put(ro, <<"timeout">>, StringValue(timeoutText(ctx, default)))
    IN  Put(to, <<"statement">>, StringValue(statement))

\* translateQueryOptions; order is the order in which range visits the named
\* parameters.  Gives [ok, coreOpts] or [ok, err].
translateQueryOptions(ctx, statement, opts, order, default) ==
    IF opts.ScanConsistency.some /\ ~scanConsistencyKnown(opts.ScanConsistency.val)
    THEN [ok |-> FALSE, err |-> invalidArgumentError("ScanConsistency", "unknown value")]
    ELSE [ok |-> TRUE,
          coreOpts |-> [Payload |-> builtinOpts(paramOpts(opts, order), ctx, statement,
                                                opts, default),
                        Priority |-> priorityOf(opts), User |-> <<>>]]

(* ------------------------------------------------------------ the inputs *)

Statements == {<<>>, <<"SELECT 1">>}

\* "foo" and "$foo" share the wire key "$foo"; "bar" has a wire key of its own.
NamedKeys == {<<"foo">>, <<"$", "foo">>, <<"bar">>}

NamedValues == {StringValue(<<"v1">>), StringValue(<<"v2">>)}

RawKeys == {<<"statement">>, <<"timeout">>, <<"$", "foo">>, <<"query_context">>,
            <<"client_context_id">>}

RawValue == StringValue(<<"raw">>)

\* The non-empty maps from at most n of the keys K to the values V.
Maps(K, V, n) == UNION {[D -> V] : D \in {X \in SUBSET K : X # {} /\ Cardinality(X) <= n}}

\* ReadOnly, Priority and Unmarshaler are each read by one statement that reads
\* no other option and writes a field no other statement writes; a call sets
\* at most one of the three, and the other options in every combination.
QueryOptionsSet ==
    {o \in [PositionalParameters : Option({<<"p1">>}),
            NamedParameters : Option(Maps(NamedKeys, NamedValues, MaxNamed)),
            Raw : Option(Maps(RawKeys, {RawValue}, MaxRaw)),
            ScanConsistency : Option(ScanConsistencies),
            ReadOnly : Option(BOOLEAN),
            Priority : Option(BOOLEAN),
            Unmarshaler : Option({"request unmarshaler"})] :
        Cardinality({f \in {"ReadOnly", "Priority", "Unmarshaler"} : o[f].some}) <= 1}

\* ctx: its deadline, as the time left until it.
Contexts == Option(Remaining)

Namespaces == Option({[Database |-> <<"db">>, Scope |-> <<"scope">>]})

\* uuid.NewString(): any identifier.
Uuids == {<<"uuid-1">>, <<"uuid-2">>}

DefaultUnmarshaler == "default unmarshaler"

\* What agent.Query answers: a row reader, or an error.
AgentErrors ==
    {e \in TransportErrors \cup PlainErrors :
        /\ e.wraps = 0
        /\ errorsAs(e) => /\ e.core.Errors = <<>>
                          /\ e.core.WasNotDispatched
                          /\ e.core.InnerError.some
                          /\ e.core.InnerError.val.wraps = 0
                          /\ e.core.InnerError.val.leaf = ContextCanceled
                          /\ e.core.HTTPResponseCode # StatusUnauthorized
        /\ ~errorsAs(e) => e.leaf = OtherLeaf}

AgentResponses == {[ok |-> TRUE, err |-> None]} \cup {[ok |-> FALSE, err |-> Some(e)] : e \in AgentErrors}

(* ------------------------------------------------------------- the client *)

NoCall == [op |-> "none"]

NoReturn == [result |-> None, err |-> None]

\* newGocbcoreQueryClient: the configuration is fixed at construction.
Init ==
    /\ namespace \in Namespaces
    /\ defaultQueryTimeout = DefaultQueryTimeout
    /\ pc = "ready"
    /\ call = NoCall
    /\ agentCalls = <<>>
    /\ ret = NoReturn

\* The backquote character of the query context format.
Backquote == "(backquote)"

\* Line 48: fmt.Sprintf of the query context, default:(backquote)db(backquote).(backquote)scope(backquote).
queryContext(ns) ==
    <<"default:", Backquote>> \o ns.Database \o <<Backquote, ".", Backquote>>
    \o ns.Scope \o <<Backquote>>

\* Lines 47-51: what Query adds to the payload built by translateQueryOptions.
inject(payload, ns, uuid) ==
    LET qc == IF ns.some
              THEN Put(payload, <<"query_context">>, StringValue(queryContext(ns.val)))
              ELSE payload
    IN  Put(qc, <<"client_context_id">>, StringValue(uuid))

\* Lines 58-66.
queryResult(opts) ==
    [reader |-> "row reader",
     unmarshaler |-> IF opts.Unmarshaler.some THEN opts.Unmarshaler.val ELSE DefaultUnmarshaler]

\* gocbcoreQueryClient.Query up to the call of c.agent.Query (lines 41-53):
\* the payload is built and completed, and either the error of
\* translateQueryOptions is returned at once or the options are handed to the
\* agent and the call waits for its answer.  One call per behaviour: the
\* client keeps nothing from one call to the next.
Query ==
    /\ pc = "ready"
    /\ \E ctx \in Contexts, statement \in Statements, opts \in QueryOptionsSet :
        \E order \in Orders(IF opts.NamedParameters.some
                            THEN DOMAIN opts.NamedParameters.val ELSE {}) :
          LET t == translateQueryOptions(ctx, statement, opts, order, defaultQueryTimeout)
          IN  IF ~t.ok
              THEN /\ call' = [op |-> "Query", ctx |-> ctx, statement |-> statement,
                               opts |-> opts, uuid |-> <<>>]
                   /\ agentCalls' = agentCalls
                   /\ ret' = [result |-> None, err |-> Some(t.err)]
                   /\ pc' = "returned"
              ELSE \E uuid \in Uuids :
                   /\ call' = [op |-> "Query", ctx |-> ctx, statement |-> statement,
                               opts |-> opts, uuid |-> uuid]
                   /\ agentCalls' = Append(agentCalls,
                          [t.coreOpts EXCEPT !.Payload = inject(@, namespace, uuid)])
                   /\ ret' = ret
                   /\ pc' = "waiting"
    /\ UNCHANGED <<namespace, defaultQueryTimeout>>

\* gocbcoreQueryClient.Query from the answer of c.agent.Query on (lines 53-66):
\* the agent answers with a row reader or with an error (a cancellation or a
\* deadline of ctx during the wait is such an error), and opts.Unmarshaler is
\* read only now.
QueryReturn ==
    /\ pc = "waiting"
    /\ \E resp \in AgentResponses :
        ret' = IF resp.ok
               THEN [result |-> Some(queryResult(call.opts)), err |-> None]
               ELSE [result |-> None, err |-> Some(translateGocbcoreError(resp.err.val))]
    /\ pc' = "returned"
    /\ UNCHANGED <<namespace, defaultQueryTimeout, call, agentCalls>>

\* translateGocbcoreError on an error of a row reader (Err, Close, MetaData).
Translate ==
    /\ pc = "ready"
    /\ \E err \in TransportErrors \cup PlainErrors :
        /\ call' = [op |-> "translateGocbcoreError", err |-> err]
        /\ ret' = [result |-> None, err |-> Some(translateGocbcoreError(err))]
    /\ pc' = "returned"
    /\ UNCHANGED <<namespace, defaultQueryTimeout, agentCalls>>

Next == Translate \/ Query \/ QueryReturn

Spec == Init /\ [][Next]_vars

(* ------------------------------------------------- the error classifier *)

\* The last operation was translateGocbcoreError on a transport error.
TranslatedTransportError ==
    /\ call.op = "translateGocbcoreError"
    /\ errorsAs(call.err)

\* The transport error is an authentication failure: status 401, or an
\* authentication failure in its cause chain.
AuthenticationCase ==
    \/ call.err.core.HTTPResponseCode = 401
    \/ /\ call.err.core.InnerError.some
       /\ call.err.core.InnerError.val.leaf = ErrAuthenticationFailure

\* The descriptor the specification selects: the first one that is not
\* retriable, the first of the list when all are retriable.
IsSelected(errors, i) ==
    \/ ~errors[i].Retry /\ \A j \in 1..(i - 1) : errors[j].Retry
    \/ i = 1 /\ \A j \in 1..Len(errors) : errors[j].Retry

\* The cause the specification names for a kind of inner error.
TagOfLeaf(leaf) ==
    IF leaf = ErrTimeout THEN "ErrTimeout"
    ELSE IF leaf = ContextCanceled THEN "context.Canceled"
    ELSE IF leaf = ContextDeadlineExceeded THEN "context.DeadlineExceeded"
    ELSE "none"

\* The tag of a classified error.
TagOf(out) ==
    IF out.type = "queryError" THEN "QueryError"
    ELSE IF out.type = "columnarError"
    THEN (IF out.cause.kind = "errors.New" THEN "Unknown" ELSE out.cause.kind)
    ELSE out.type

\* C1: for a transport error that is not an authentication failure and has
\* descriptors, the first non-retriable descriptor (the first of the list when
\* all are retriable) is selected; when its code is neither 20000 nor 21002 the
\* result is a query error with that descriptor's code and message and with all
\* the descriptors in their order.
C1_FirstNonRetriableSelected ==
    (TranslatedTransportError /\ ~AuthenticationCase /\ Len(call.err.core.Errors) > 0) =>
        LET errors == call.err.core.Errors
            out    == ret.err.val
        IN  \E i \in 1..Len(errors) :
              /\ IsSelected(errors, i)
              /\ errors[i].Code \notin {20000, 21002} =>
                    /\ out.type = "queryError"
                    /\ out.code = errors[i].Code
                    /\ out.message = errors[i].Message
                    /\ Len(out.cause.errors) = Len(errors)
                    /\ \A j \in 1..Len(errors) :
                          /\ out.cause.errors[j].Code = errors[j].Code
                          /\ out.cause.errors[j].Message = errors[j].Message

\* A retriable 5000 followed by a non-retriable 6000 gave a query error 6000.
C1_Witness ==
    /\ TranslatedTransportError /\ ~AuthenticationCase
    /\ Len(call.err.core.Errors) = 2
    /\ call.err.core.Errors[1].Code = 5000 /\ call.err.core.Errors[1].Retry
    /\ call.err.core.Errors[2].Code = 6000 /\ ~call.err.core.Errors[2].Retry
    /\ ret.err.val.type = "queryError" /\ ret.err.val.code = 6000

\* C2: a transport error with status 401 or an authentication failure as its
\* cause gives InvalidCredential with the inner error's message, whatever its
\* descriptors, its was-not-dispatched flag and its inner error.
C2_AuthenticationFirst ==
    (TranslatedTransportError /\ AuthenticationCase) =>
        /\ ret.err.val.type = "columnarError"
        /\ ret.err.val.cause.kind = "ErrInvalidCredential"
        /\ ret.err.val.message = WrapText(call.err.core.InnerError.val.wraps,
                                          <<call.err.core.InnerError.val.leaf>>)

\* The same, for the transport errors that carry an inner error.
AuthenticationFirstGivenInner ==
    (TranslatedTransportError /\ AuthenticationCase /\ call.err.core.InnerError.some) =>
        C2_AuthenticationFirst

\* An authentication failure with status 500, a descriptor 21002 and the
\* was-not-dispatched flag gave InvalidCredential.
AuthenticationFirstReached ==
    /\ TranslatedTransportError
    /\ call.err.core.HTTPResponseCode = 500
    /\ call.err.core.InnerError.some
    /\ call.err.core.InnerError.val.leaf = ErrAuthenticationFailure
    /\ call.err.core.WasNotDispatched
    /\ Len(call.err.core.Errors) > 0
    /\ call.err.core.Errors[1].Code = 21002 /\ ~call.err.core.Errors[1].Retry
    /\ ret.err.val.type = "columnarError"
    /\ ret.err.val.cause.kind = "ErrInvalidCredential"

\* C3: for a transport error that is not an authentication failure and has
\* descriptors, the selected code decides: 20000 gives InvalidCredential and
\* 21002 gives Timeout whatever the inner error; any other code gives a query
\* error whose cause is Timeout, Canceled or DeadlineExceeded when the inner
\* error is a transport timeout, a cancellation or a deadline, and none of
\* these otherwise.
C3_DescriptorCodeDecides ==
    (TranslatedTransportError /\ ~AuthenticationCase /\ Len(call.err.core.Errors) > 0) =>
        LET errors == call.err.core.Errors
            inner  == call.err.core.InnerError
            out    == ret.err.val
        IN  \A i \in 1..Len(errors) :
              IsSelected(errors, i) =>
                IF errors[i].Code = 20000
                THEN out.type = "columnarError" /\ out.cause.kind = "ErrInvalidCredential"
                ELSE IF errors[i].Code = 21002
                THEN out.type = "columnarError" /\ out.cause.kind = "ErrTimeout"
                ELSE /\ out.type = "queryError"
                     /\ IF inner.some /\ TagOfLeaf(inner.val.leaf) # "none"
                        THEN out.cause.cause.kind = TagOfLeaf(inner.val.leaf)
                        ELSE out.cause.cause.kind \notin
                                {"ErrTimeout", "context.Canceled", "context.DeadlineExceeded"}

\* A cancelled request with selected code 21002 gave Timeout.
C3_Witness ==
    /\ TranslatedTransportError /\ ~AuthenticationCase
    /\ Len(call.err.core.Errors) = 2
    /\ call.err.core.Errors[1].Retry /\ call.err.core.Errors[1].Code = 5000
    /\ ~call.err.core.Errors[2].Retry /\ call.err.core.Errors[2].Code = 21002
    /\ call.err.core.InnerError.some
    /\ call.err.core.InnerError.val.leaf = ContextCanceled
    /\ ret.err.val.type = "columnarError"
    /\ ret.err.val.cause.kind = "ErrTimeout"

\* The tag and the message the specification gives a transport error without
\* descriptors, from its inner error and its was-not-dispatched flag.
TaggedFromInner(out, leaf, text, wnd) ==
    /\ out.type = "columnarError"
    /\ leaf = ErrTimeout =>
          /\ TagOf(out) = "ErrTimeout"
          /\ out.message =
                IF wnd THEN <<"operation not sent to server, as timeout would be exceeded">>
                ELSE text
    /\ leaf = ContextCanceled =>
          /\ TagOf(out) = "context.Canceled"
          /\ out.message =
                IF wnd THEN <<"operation not sent to server, as context was cancelled">>
                ELSE text
    /\ leaf = ContextDeadlineExceeded =>
          /\ TagOf(out) = "context.DeadlineExceeded"
          /\ out.message =
                IF wnd
                THEN <<"operation not sent to server, as context deadline would be exceeded">>
                ELSE text
    /\ leaf \notin {ErrTimeout, ContextCanceled, ContextDeadlineExceeded} =>
          /\ TagOf(out) = "Unknown"
          /\ out.message = text

\* C4: a transport error that is not an authentication failure and has no
\* descriptors is tagged from the inner error alone (Timeout, Canceled,
\* DeadlineExceeded, Unknown for anything else); its message is the inner
\* error's message, replaced by the matching "operation not sent to server"
\* text when the flag is set and the tag is not Unknown.
C4_InnerCauseDecides ==
    (TranslatedTransportError /\ ~AuthenticationCase /\ Len(call.err.core.Errors) = 0) =>
        IF call.err.core.InnerError.some
        THEN TaggedFromInner(ret.err.val, call.err.core.InnerError.val.leaf,
                             WrapText(call.err.core.InnerError.val.wraps,
                                      <<call.err.core.InnerError.val.leaf>>),
                             call.err.core.WasNotDispatched)
        ELSE TagOf(ret.err.val) = "Unknown"

\* The same, for the transport errors that carry an inner error.
InnerCauseDecidesGivenInner ==
    (/\ TranslatedTransportError /\ ~AuthenticationCase
     /\ Len(call.err.core.Errors) = 0 /\ call.err.core.InnerError.some) =>
        C4_InnerCauseDecides

\* A cancelled request that was never dispatched gave Canceled with the
\* not-sent message.
InnerCauseDecidesReached ==
    /\ TranslatedTransportError /\ ~AuthenticationCase
    /\ Len(call.err.core.Errors) = 0
    /\ call.err.core.InnerError.some
    /\ call.err.core.InnerError.val.leaf = ContextCanceled
    /\ call.err.core.WasNotDispatched
    /\ TagOf(ret.err.val) = "context.Canceled"
    /\ ret.err.val.message = <<"operation not sent to server, as context was cancelled">>

\* C5: translateGocbcoreError is total on transport errors: whatever the
\* status, the descriptors, the flag and the inner error (present or absent),
\* it returns one classified error tagged InvalidCredential, Timeout, Canceled,
\* DeadlineExceeded, QueryError or Unknown.
C5_Total ==
    TranslatedTransportError =>
        TagOf(ret.err.val) \in {"ErrInvalidCredential", "ErrTimeout", "context.Canceled",
                                "context.DeadlineExceeded", "QueryError", "Unknown"}

(* ---------------------------------------------------- the query payload *)

\* The last operation is a Query whose payload was handed to the transport,
\* whether the agent has answered or not.
Dispatched == call.op = "Query" /\ Len(agentCalls) = 1

\* The wire key the specification gives a named parameter.
WireKey(k) == IF Len(k) > 0 /\ k[1] = "$" THEN k ELSE <<"$">> \o k

\* The raw passthrough mapping of the call holds the key k.
RawHas(k) == call.opts.Raw.some /\ k \in DOMAIN call.opts.Raw.val

\* C6: when the raw passthrough mapping holds the key "statement", the payload
\* has the raw value under statement, not the statement argument.
C6_RawStatementOverrides ==
    (Dispatched /\ RawHas(<<"statement">>)) =>
        agentCalls[1].Payload[<<"statement">>] = call.opts.Raw.val[<<"statement">>]

\* C7, as claimed: every payload built holds a statement field and a timeout
\* field, both non-empty, whatever the statement argument.
C7_StatementAndTimeoutNonEmpty ==
    Dispatched =>
        /\ <<"statement">> \in DOMAIN agentCalls[1].Payload
        /\ <<"timeout">> \in DOMAIN agentCalls[1].Payload
        /\ agentCalls[1].Payload[<<"statement">>].v # <<>>
        /\ agentCalls[1].Payload[<<"timeout">>].v # <<>>

\* C7, as amended: every payload built holds a timeout field that is a
\* non-empty string and a statement field that is the statement argument, so
\* non-empty exactly when the argument is.
C7_TimeoutNonEmptyStatementIsArgument ==
    Dispatched =>
        /\ <<"statement">> \in DOMAIN agentCalls[1].Payload
        /\ <<"timeout">> \in DOMAIN agentCalls[1].Payload
        /\ agentCalls[1].Payload[<<"statement">>] = [kind |-> "string", v |-> call.statement]
        /\ agentCalls[1].Payload[<<"timeout">>].kind = "string"
        /\ agentCalls[1].Payload[<<"timeout">>].v # <<>>

\* An empty statement was dispatched, with a raw statement and a raw timeout
\* in the options and a deadline on the context.
C7_Witness ==
    /\ Dispatched
    /\ call.statement = <<>>
    /\ call.ctx.some
    /\ RawHas(<<"statement">>)
    /\ RawHas(<<"timeout">>)
    /\ agentCalls[1].Payload[<<"statement">>].v = <<>>
    /\ agentCalls[1].Payload[<<"timeout">>].v = <<"1", "h", "2", "m", "5", "s">>

\* C8: the dispatched client_context_id is the identifier generated for the
\* call, and query_context is never a value of the user: it is the string
\* derived from the configured namespace, and no raw or named entry decides
\* either field.
C8_ProtectedFields ==
    Dispatched =>
        /\ agentCalls[1].Payload[<<"client_context_id">>] = [kind |-> "string", v |-> call.uuid]
        /\ <<"query_context">> \in DOMAIN agentCalls[1].Payload =>
              /\ namespace.some
              /\ agentCalls[1].Payload[<<"query_context">>] =
                    [kind |-> "string",
                     v |-> <<"default:", "(backquote)">> \o namespace.val.Database
                           \o <<"(backquote)", ".", "(backquote)">> \o namespace.val.Scope
                           \o <<"(backquote)">>]

\* C9, as claimed: every named parameter (k, v) whose wire key no raw entry
\* uses is in the payload as v under its wire key.
C9_NamedParameters ==
    (Dispatched /\ call.opts.NamedParameters.some) =>
        \A k \in DOMAIN call.opts.NamedParameters.val :
            ~RawHas(WireKey(k)) =>
                /\ WireKey(k) \in DOMAIN agentCalls[1].Payload
                /\ agentCalls[1].Payload[WireKey(k)] = call.opts.NamedParameters.val[k]

\* C9, as amended: for every named parameter (k, v) whose wire key no raw
\* entry uses, the payload holds under that wire key the value of a named
\* parameter with that wire key: v itself when no other key of the mapping has
\* the same wire key, in whatever order the mapping is visited.
C9_NamedParametersDistinctWireKeys ==
    (Dispatched /\ call.opts.NamedParameters.some) =>
        LET named == call.opts.NamedParameters.val
        IN  \A k \in DOMAIN named :
              ~RawHas(WireKey(k)) =>
                /\ WireKey(k) \in DOMAIN agentCalls[1].Payload
                /\ \E k2 \in DOMAIN named :
                      /\ WireKey(k2) = WireKey(k)
                      /\ agentCalls[1].Payload[WireKey(k)] = named[k2]
                /\ (\A k2 \in DOMAIN named : k2 # k => WireKey(k2) # WireKey(k)) =>
                      agentCalls[1].Payload[WireKey(k)] = named[k]

\* The named parameters "foo" and "bar", with different values and no raw
\* entry, were dispatched under "$foo" and "$bar", each with its own value.
C9_Witness ==
    /\ Dispatched
    /\ call.opts.NamedParameters.some
    /\ DOMAIN call.opts.NamedParameters.val = {<<"foo">>, <<"bar">>}
    /\ call.opts.NamedParameters.val[<<"foo">>] # call.opts.NamedParameters.val[<<"bar">>]
    /\ ~call.opts.Raw.some
    /\ agentCalls[1].Payload[<<"$", "foo">>] = call.opts.NamedParameters.val[<<"foo">>]
    /\ agentCalls[1].Payload[<<"$", "bar">>] = call.opts.NamedParameters.val[<<"bar">>]

\* C10: a scan consistency other than NotBounded and RequestPlus makes Query
\* return InvalidArgument naming "ScanConsistency", no result, and nothing is
\* dispatched; whatever is dispatched comes from a payload built without error.
C10_InvalidScanConsistencyNotDispatched ==
    /\ (/\ call.op = "Query"
        /\ call.opts.ScanConsistency.some
        /\ call.opts.ScanConsistency.val \notin {1, 2}) =>
            /\ pc = "returned"
            /\ agentCalls = <<>>
            /\ ~ret.result.some
            /\ ret.err.some
            /\ ret.err.val.type = "invalidArgumentError"
            /\ ret.err.val.ArgumentName = "ScanConsistency"
    /\ agentCalls # <<>> =>
            /\ call.op = "Query"
            /\ call.opts.ScanConsistency.some => call.opts.ScanConsistency.val \in {1, 2}
            /\ call.opts.ScanConsistency.some =>
                  agentCalls[1].Payload[<<"scan_consistency">>].v =
                      IF call.opts.ScanConsistency.val = 1
                      THEN <<"not_bounded">> ELSE <<"request_plus">>

\* A call with scan consistency 3 returned InvalidArgument and sent nothing.
C10_Witness ==
    /\ call.op = "Query"
    /\ call.opts.ScanConsistency.some
    /\ call.opts.ScanConsistency.val = 3
    /\ agentCalls = <<>>
    /\ ret.err.some
    /\ ret.err.val.type = "invalidArgumentError"

====
